---------------------------- MODULE Spec2Model ----------------------------
(***************************************************************************)
(* A model of railroad.js: the node builders (or, maybe, any, many, each)  *)
(* and the renderer appendToDOM, which lays a node tree out as nested,     *)
(* absolutely positioned DIVs joined by connector SPANs.                   *)
(*                                                                         *)
(* JavaScript values are records [t, op, content, children]: t is the      *)
(* value's typeof, op its .op property ("undefined" when it has none),     *)
(* content its .content and children its .children array.                  *)
(***************************************************************************)
EXTENDS Integers, Sequences, FiniteSets, TLC

\* ------------------------------------------------------------- bounds
\* Longest argument list a modelled call passes.
MaxArgs == 2
\* Largest node tree (counted in values) a modelled call is given or builds.
MaxNodes == 4

\* ------------------------------------------------------------- values
\* The texts the modelled caller writes.
Texts == {"x", "y"}
\* '▶', the glyph maybe() puts on the empty branch.
BypassMarker == "u25b6"

Str(s) == [t |-> "string", op |-> "undefined", content |-> s, children |-> <<>>]
\* A value that is neither a string nor an object with a string op (here 5).
Num == [t |-> "number", op |-> "undefined", content |-> "5", children |-> <<>>]
Obj(o, c, ch) == [t |-> "object", op |-> o, content |-> c, children |-> ch]
Leaf(s) == Obj("html", s, <<>>)

\* The outcome of a call: what it threw ("none" when it returned) and the
\* returned value, <<v>>, or <<>> when it threw.
Thrown(e) == [threw |-> e, val |-> <<>>]

RECURSIVE NodeCount(_)
RECURSIVE NodeCountAll(_, _)
NodeCountAll(s, i) == IF i > Len(s) THEN 0 ELSE NodeCount(s[i]) + NodeCountAll(s, i + 1)
NodeCount(v) == 1 + NodeCountAll(v.children, 1)

\* ------------------------------------------------------------- toNode
\* toNode throws new Error(content) unless content is a string or an object
\* whose op is a string.
toNodeThrows(content) ==
  ~(content.t = "string" \/ (content.t = "object" /\ content.op # "undefined"))

toNodeValue(content) ==
  IF content.t = "string" THEN Leaf(content.content) ELSE content

toNode(content) ==
  IF toNodeThrows(content) THEN Thrown("InvalidNodeError")
  ELSE [threw |-> "none", val |-> <<toNodeValue(content)>>]

\* ------------------------------------------------------------- or
\* addOption's effect on [options, alreadySeen, threw]; children of a '|'
\* are added in order, an 'html' is added unless its content was seen, and
\* anything else (a string has no op) goes through toNode.
RECURSIVE addOption(_, _)
RECURSIVE addOptions(_, _, _)
addOptions(children, i, st) ==
  IF i > Len(children) \/ st.threw # "none" THEN st
  ELSE addOptions(children, i + 1, addOption(children[i], st))

addOption(child, st) ==
  CASE child.op = "|" -> addOptions(child.children, 1, st)
    [] child.op = "html" ->
         IF child.content \in st.alreadySeen THEN st
         ELSE [st EXCEPT !.alreadySeen = @ \cup {child.content},
                         !.options = Append(@, child)]
    [] OTHER ->
         IF toNodeThrows(child) THEN [st EXCEPT !.threw = "InvalidNodeError"]
         ELSE [st EXCEPT !.options = Append(@, toNodeValue(child))]

orResult(options) ==
  IF Len(options) = 1 THEN options[1] ELSE Obj("|", "", options)

or(arguments) ==
  LET st == addOptions(arguments, 1,
                       [options |-> <<>>, alreadySeen |-> {}, threw |-> "none"])
  IN IF st.threw # "none" THEN Thrown(st.threw)
     ELSE [threw |-> "none", val |-> <<orResult(st.options)>>]

\* ------------------------------------------------------------- maybe, any, many
many(child) == [threw |-> "none", val |-> <<Obj("+", "", <<child>>)>>]

maybe(child) ==
  IF toNodeThrows(child) THEN Thrown("InvalidNodeError")
  ELSE or(<<toNodeValue(Str(BypassMarker)), toNodeValue(child)>>)

any(child) == maybe(many(child).val[1])

\* ------------------------------------------------------------- each
RECURSIVE addItem(_, _)
RECURSIVE addItems(_, _, _)
addItems(children, i, st) ==
  IF i > Len(children) \/ st.threw # "none" THEN st
  ELSE addItems(children, i + 1, addItem(children[i], st))

addItem(item, st) ==
  IF item.op = "." THEN addItems(item.children, 1, st)
  ELSE IF toNodeThrows(item) THEN [st EXCEPT !.threw = "InvalidNodeError"]
  ELSE [st EXCEPT !.items = Append(@, toNodeValue(item))]

\* each without the collapse of a single item.
eachResult_NoCollapse(items) == Obj(".", "", items)

eachResult(items) ==
  IF Len(items) = 1 THEN items[1] ELSE Obj(".", "", items)

each(arguments) ==
  LET st == addItems(arguments, 1, [items |-> <<>>, threw |-> "none"])
  IN IF st.threw # "none" THEN Thrown(st.threw)
     ELSE [threw |-> "none", val |-> <<eachResult(st.items)>>]

\* ------------------------------------------------------------- appendToDOM
\* An element is [op, w, h, left, top, kids, spans]: the op of the node a DIV
\* was made for, its offsetWidth and offsetHeight, its style.left and
\* style.top, its child DIVs and the connector SPANs appended to it, one
\* group per rightArrow call (or loop-back piece).
Div(o, w, h, kids, spans) ==
  [op |-> o, w |-> w, h |-> h, left |-> 0, top |-> 0, kids |-> kids, spans |-> spans]

Span(k, l, t, w, h) == [kind |-> k, left |-> l, top |-> t, width |-> w, height |-> h]

Abs(i) == IF i < 0 THEN 0 - i ELSE i
Max(a, b) == IF a > b THEN a ELSE b

\* rightArrow: one 1px line when height is 0, else two half-height spans that
\* meet at junctionX (<<>> when the caller passes none).
rightArrow(x, width, y, height, junctionX) ==
  IF height = 0 THEN <<Span("line", x, y, width, 1)>>
  ELSE
    LET jx == IF junctionX = <<>> THEN x + (width \div 2) ELSE junctionX[1]
        halfHeight == (Abs(height) + 1) \div 2
    IN IF height > 0
       THEN << Span("topRight", x, y, jx - x, halfHeight),
               Span("bottomLeft", jx, y + halfHeight, x + width - jx, height - halfHeight) >>
       ELSE << Span("bottomRight", x, y - halfHeight, jx - x, halfHeight),
               Span("topLeft", jx, y + height, x + width - jx, halfHeight) >>

\* The DIV of an 'html' node: the browser's size of its content under the
\* measure m, its height forced to 8px for the bypass marker.
leafDiv(node, m) ==
  Div("html", m[node.content].w,
      IF node.content = BypassMarker THEN 8 ELSE m[node.content].h, <<>>, <<>>)

\* case '|'
RECURSIVE choiceWidth(_, _)
choiceWidth(children, i) ==
  IF i = 0 THEN 0 ELSE Max(choiceWidth(children, i - 1), 32 + children[i].w)

\* The running height before child i is placed (after its 16px row gap).
RECURSIVE choiceTop(_, _)
choiceTop(children, i) ==
  IF i = 1 THEN 0 ELSE choiceTop(children, i - 1) + children[i - 1].h + 16

choiceHeight(children) ==
  IF Len(children) = 0 THEN 0
  ELSE choiceTop(children, Len(children)) + children[Len(children)].h

choiceLeftX(children, i) == (choiceWidth(children, Len(children)) - children[i].w) \div 2
choiceYCenter(children, i) == choiceTop(children, i) + (children[i].h \div 2)

RECURSIVE choiceArrows(_, _)
choiceArrows(children, i) ==
  IF i > Len(children) THEN <<>>
  ELSE LET width == choiceWidth(children, Len(children))
           centerY == choiceHeight(children) \div 2
           leftX == choiceLeftX(children, i)
           rightX == leftX + children[i].w
           yc == choiceYCenter(children, i)
       IN << rightArrow(0, leftX, centerY, yc - centerY, <<8>>),
             rightArrow(rightX, width - rightX, yc, centerY - yc, <<width - 8>>) >>
          \o choiceArrows(children, i + 1)

layoutChoice(children) ==
  Div("|", choiceWidth(children, Len(children)), choiceHeight(children),
      [i \in 1..Len(children) |->
         [children[i] EXCEPT !.top = choiceTop(children, i),
                             !.left = choiceLeftX(children, i)]],
      choiceArrows(children, 1))

\* The '+' case with room for the loop-back curve on one side only.
layoutRepeat_OneMargin(children) ==
  LET child == children[1]
      width == child.w + 16
      height == child.h + 16
      centerY == height \div 2
  IN Div("+", width, height,
         [i \in 1..Len(children) |->
            IF i = 1 THEN [child EXCEPT !.top = 8, !.left = 16] ELSE children[i]],
         << <<Span("loopTop", 8, 0, width - 16, centerY - 8)>>,
            <<Span("loopLeft", 8, centerY - 12, 8, 12)>>,
            <<Span("loopRight", width - 16, centerY - 12, 8, 12)>>,
            <<Span("arrowhead", 0, 0 - 5, width, 8)>>,
            rightArrow(0, 16, centerY, 0, <<>>),
            rightArrow(width - 16, 16, centerY, 0, <<>>) >>)

\* case '+'
layoutRepeat(children) ==
  LET child == children[1]
      width == child.w + 32
      height == child.h + 16
      centerY == height \div 2
  IN Div("+", width, height,
         [i \in 1..Len(children) |->
            IF i = 1 THEN [child EXCEPT !.top = 8, !.left = 16] ELSE children[i]],
         << <<Span("loopTop", 8, 0, width - 16, centerY - 8)>>,
            <<Span("loopLeft", 8, centerY - 12, 8, 12)>>,
            <<Span("loopRight", width - 16, centerY - 12, 8, 12)>>,
            <<Span("arrowhead", 0, 0 - 5, width, 8)>>,
            rightArrow(0, 16, centerY, 0, <<>>),
            rightArrow(width - 16, 16, centerY, 0, <<>>) >>)

\* case '.'
RECURSIVE eachHeight(_, _)
eachHeight(children, i) ==
  IF i = 0 THEN 0 ELSE Max(eachHeight(children, i - 1), children[i].h)

\* The running width when child i is placed.
RECURSIVE eachLeft(_, _)
eachLeft(children, i) ==
  IF i = 1 THEN 16 ELSE eachLeft(children, i - 1) + children[i - 1].w + 16

eachWidth(children) ==
  IF Len(children) = 0 THEN 16
  ELSE eachLeft(children, Len(children)) + children[Len(children)].w + 16

layoutEach(children) ==
  LET height == eachHeight(children, Len(children))
  IN Div(".", eachWidth(children), height,
         [i \in 1..Len(children) |->
            [children[i] EXCEPT !.left = eachLeft(children, i),
                                !.top = (height - children[i].h) \div 2]],
         <<rightArrow(0, 16, height \div 2, 0, <<>>)>>
         \o [i \in 1..Len(children) |->
               rightArrow(eachLeft(children, i) + children[i].w, 16, height \div 2, 0, <<>>)])

\* The switch on node.op without its default case: an op it does not know is
\* left as it was made, and nothing is thrown.
layoutByOp_NoDefault(op, children) ==
  CASE op = "|" -> [threw |-> "none", div |-> <<layoutChoice(children)>>]
    [] op = "+" -> [threw |-> "none", div |-> <<layoutRepeat(children)>>]
    [] op = "." -> [threw |-> "none", div |-> <<layoutEach(children)>>]
    [] OTHER -> [threw |-> "none", div |-> <<Div(op, 0, 0, children, <<>>)>>]

\* The switch on node.op, run once every child has its DIV: the DIV as laid
\* out, or (default) the throw, which leaves the DIV attached as it was made.
layoutByOp(op, children) ==
  CASE op = "|" -> [threw |-> "none", div |-> <<layoutChoice(children)>>]
    [] op = "+" -> [threw |-> "none", div |-> <<layoutRepeat(children)>>]
    [] op = "." -> [threw |-> "none", div |-> <<layoutEach(children)>>]
    [] OTHER -> [threw |-> "UnsupportedNodeError",
                 div |-> <<Div(op, 0, 0, children, <<>>)>>]

\* appendToDOM(node, parent): [threw, div], div being <<the DIV appended to
\* parent>>, or <<>> when toNode threw before any DIV was made. A child's
\* throw leaves the DIVs made so far attached.
RECURSIVE appendToDOM(_, _)
RECURSIVE appendChildren(_, _, _, _)
appendChildren(children, i, m, acc) ==
  IF i > Len(children) \/ acc.threw # "none" THEN acc
  ELSE LET c == appendToDOM(children[i], m)
       IN appendChildren(children, i + 1, m,
                         [threw |-> c.threw, kids |-> acc.kids \o c.div])

appendToDOM(node, m) ==
  IF toNodeThrows(node) THEN [threw |-> "InvalidNodeError", div |-> <<>>]
  ELSE LET n == toNodeValue(node)
       IN IF n.op = "html" THEN [threw |-> "none", div |-> <<leafDiv(n, m)>>]
          ELSE LET c == appendChildren(n.children, 1, m,
                                       [threw |-> "none", kids |-> <<>>])
               IN IF c.threw # "none"
                  THEN [threw |-> c.threw, div |-> <<Div(n.op, 0, 0, c.kids, <<>>)>>]
                  ELSE layoutByOp(n.op, c.kids)

\* opt_stats after a call that returned: the 'html' branch reads the
\* misspelt offesetWidth and offesetHeight, which are undefined.
statsOf(div) ==
  IF div.op = "html" THEN <<"undefined", "undefined">> ELSE <<div.w, div.h>>

\* ------------------------------------------------------------- state
VARIABLES
  pending, \* the argument list the caller is putting together
  fn,      \* the function last called ("none" while arguments are gathered)
  args,    \* its argument list
  threw,   \* what it threw, "none" when it returned
  ret,     \* <<v>> for the node the caller holds from the last call, else <<>>
  dom,     \* the children of the parent element handed to appendToDOM
  stats    \* the opt_stats object handed to appendToDOM: <<>> or <<width, height>>

vars == <<pending, fn, args, threw, ret, dom, stats>>

Builders == {"or", "each", "maybe", "any", "many"}

\* What the measuring browser may report for a text: width and height.
Sizes == {[w |-> 10, h |-> 5], [w |-> 21, h |-> 8]}
Measures == [Texts \cup {BypassMarker} -> Sizes]

\* What the caller can pass: its texts, a non-node, and the node it holds.
Atoms == {Str(s) : s \in Texts} \cup {Num}
Pool == Atoms \cup {ret[i] : i \in DOMAIN ret}

Fits(v) == NodeCount(v) <= MaxNodes

Init ==
  /\ pending = <<>>
  /\ fn = "none"
  /\ args = <<>>
  /\ threw = "none"
  /\ ret = <<>>
  /\ dom = <<>>
  /\ stats = <<>>

\* The caller builds its diagram first and lays it out last: once appendToDOM
\* has been called it makes no further call.
\* The caller evaluates one more argument of the call it is about to make.
PushArg ==
  /\ fn # "appendToDOM"
  /\ Len(pending) < MaxArgs
  /\ \E v \in Pool : pending' = Append(pending, v)
  /\ fn' = "none"
  /\ args' = <<>>
  /\ threw' = "none"
  /\ UNCHANGED <<ret, dom, stats>>

Call(f, r) ==
  /\ fn # "appendToDOM"
  /\ IF r.threw = "none" THEN Fits(r.val[1]) ELSE TRUE
  /\ fn' = f
  /\ args' = pending
  /\ pending' = <<>>
  /\ threw' = r.threw
  /\ ret' = r.val
  /\ UNCHANGED <<dom, stats>>

CallOr == \E r \in {or(pending)} : Call("or", r)
CallEach == \E r \in {each(pending)} : Call("each", r)
CallMaybe == Len(pending) = 1 /\ \E r \in {maybe(pending[1])} : Call("maybe", r)
CallAny == Len(pending) = 1 /\ \E r \in {any(pending[1])} : Call("any", r)
CallMany == Len(pending) = 1 /\ \E r \in {many(pending[1])} : Call("many", r)

\* The caller writes a node by hand, {op: 'foo', children: [...]}, which
\* toNode accepts as it accepts any object with a string op.
MakeForeign ==
  /\ fn # "appendToDOM"
  /\ Fits(Obj("foo", "", pending))
  /\ ret' = <<Obj("foo", "", pending)>>
  /\ pending' = <<>>
  /\ fn' = "none"
  /\ args' = <<>>
  /\ threw' = "none"
  /\ UNCHANGED <<dom, stats>>

\* appendToDOM(node, parent, stats) on an empty parent.
CallAppendToDOM ==
  /\ fn # "appendToDOM"
  /\ Len(pending) = 1
  /\ \E m \in Measures : \E r \in {appendToDOM(pending[1], m)} :
       /\ fn' = "appendToDOM"
       /\ args' = pending
       /\ pending' = <<>>
       /\ threw' = r.threw
       /\ ret' = <<>>
       /\ dom' = dom \o r.div
       /\ stats' = IF r.threw = "none" THEN statsOf(r.div[1]) ELSE stats

Next ==
  \/ PushArg
  \/ CallOr
  \/ CallEach
  \/ CallMaybe
  \/ CallAny
  \/ CallMany
  \/ MakeForeign
  \/ CallAppendToDOM

Spec == Init /\ [][Next]_vars

\* ------------------------------------------------------------- reading a state
\* The call just made returned (it did not throw).
ReturnedFrom(f) == fn = f /\ threw = "none" /\ Len(ret) = 1

IsText(v) == v.t = "string"
IsNode(v) == v.t = "object" /\ v.op # "undefined"
leafOf(v) == IF IsText(v) THEN Leaf(v.content) ELSE v

\* The direct options of a choice result: a node that is no '|' is the single
\* option the call returned as it is.
OptionsOf(v) == IF v.op = "|" THEN v.children ELSE <<v>>

\* The argument list as the specification flattens it: a '|' (resp. '.')
\* argument stands for its options, recursively, anything else for its leafOf.
RECURSIVE Flat(_, _, _)
Flat(tag, list, i) ==
  IF i > Len(list) THEN <<>>
  ELSE (IF list[i].op = tag THEN Flat(tag, list[i].children, 1) ELSE <<leafOf(list[i])>>)
       \o Flat(tag, list, i + 1)

\* list without the 'html' nodes whose text an earlier 'html' node carries.
RECURSIVE FirstOccurrences(_, _)
FirstOccurrences(list, i) ==
  IF i = 0 THEN <<>>
  ELSE LET before == FirstOccurrences(list, i - 1)
       IN IF list[i].op = "html"
             /\ \E j \in 1..(i - 1) : list[j].op = "html" /\ list[j].content = list[i].content
          THEN before ELSE Append(before, list[i])

\* Every DIV of the tree under a DIV, itself included.
RECURSIVE DivsUnder(_)
DivsUnder(d) == {d} \cup UNION {DivsUnder(d.kids[i]) : i \in DOMAIN d.kids}
AllDivs == UNION {DivsUnder(dom[i]) : i \in DOMAIN dom}

RECURSIVE SumOf(_, _, _)
SumOf(kids, field, i) == IF i = 0 THEN 0 ELSE SumOf(kids, field, i - 1) + kids[i][field]
RECURSIVE MaxOf(_, _, _)
MaxOf(kids, field, i) ==
  IF i = 0 THEN 0
  ELSE IF kids[i][field] > MaxOf(kids, field, i - 1) THEN kids[i][field]
       ELSE MaxOf(kids, field, i - 1)

\* ------------------------------------------------------------- C1
\* C1: after or(args) returns, no two direct 'html' options of the result
\* carry the same text, and the options are the flattened arguments with every
\* later duplicate 'html' dropped, in the order of first appearance; so
\* or('x','x') is the single leaf 'x'.
C1_LeafOptionsUnique ==
  ReturnedFrom("or") =>
    LET options == OptionsOf(ret[1])
        flat == Flat("|", args, 1)
    IN /\ \A i, j \in DOMAIN options :
            (i < j /\ options[i].op = "html" /\ options[j].op = "html")
              => options[i].content # options[j].content
       /\ options = FirstOccurrences(flat, Len(flat))

\* ------------------------------------------------------------- C2
\* C2: the node or(args) returns is one of the flattened options or a '|' with
\* at least 2 options, none of them a '|'.
C2_ChoiceShape ==
  ReturnedFrom("or") =>
    \/ ret[1].op # "|" /\ \E i \in DOMAIN Flat("|", args, 1) : Flat("|", args, 1)[i] = ret[1]
    \/ /\ ret[1].op = "|"
       /\ Len(ret[1].children) >= 2
       /\ \A i \in DOMAIN ret[1].children : ret[1].children[i].op # "|"

\* C2: or(or(a, b), c) is structurally equal to or(a, b, c): with or(a, b)
\* just returned, passing the result with any c gives what a, b, c give.
C2_Flattening ==
  (ReturnedFrom("or") /\ Len(args) = 2) =>
    \A c \in Pool : or(<<ret[1], c>>) = or(Append(args, c))

\* ------------------------------------------------------------- C3
\* C3 as stated: the node each(args) returns is the single remaining item or a
\* '.' with at least 2 children, none of them a '.'.
C3_SequenceShape ==
  ReturnedFrom("each") =>
    \/ ret[1].op # "." /\ Flat(".", args, 1) = <<ret[1]>>
    \/ /\ ret[1].op = "."
       /\ Len(ret[1].children) >= 2
       /\ \A i \in DOMAIN ret[1].children : ret[1].children[i].op # "."

\* C3 as amended: when the arguments flatten to at least one item, the node
\* each(args) returns is the single remaining item or a '.' with at least 2
\* children, none of them a '.'; when they flatten to none it is a '.' with no
\* children. each(each(a, b), c) is structurally equal to each(a, b, c), and
\* each(x) returns leafOf(x).
C3_SequenceCanonical ==
  ReturnedFrom("each") =>
    LET flat == Flat(".", args, 1)
    IN /\ flat # <<>> => C3_SequenceShape
       /\ flat = <<>> => ret[1] = Obj(".", "", <<>>)
       /\ \A c \in Pool : each(<<ret[1], c>>) = each(Append(args, c))
       /\ Len(args) = 1 => ret[1] = leafOf(args[1])

\* each was handed a '.' and an item and returned one flat '.' of three.
C3_Witness ==
  /\ ReturnedFrom("each")
  /\ Len(args) = 2
  /\ args[1].op = "."
  /\ ret[1].op = "."
  /\ Len(ret[1].children) = 3

\* ------------------------------------------------------------- C4
\* C4: many(x), for x a node or a text, returns a '+' with exactly one child,
\* leafOf(x): x itself when x is a node, a leaf wrapping x when x is a text.
C4_RepeatBodyIsLeafOf ==
  (fn = "many" /\ (IsNode(args[1]) \/ IsText(args[1]))) =>
    /\ ReturnedFrom("many")
    /\ ret[1].op = "+"
    /\ ret[1].children = <<leafOf(args[1])>>

\* ------------------------------------------------------------- C5
Composite(d) == d.op \in {"|", "+", "."}

\* The reference sizes of a composite DIV from its children's.
SequenceRule(d) ==
  /\ d.w = SumOf(d.kids, "w", Len(d.kids)) + 16 * (Len(d.kids) + 1)
  /\ d.h = MaxOf(d.kids, "h", Len(d.kids))
ChoiceRule(d) ==
  /\ d.w = MaxOf(d.kids, "w", Len(d.kids)) + 32
  /\ d.h = SumOf(d.kids, "h", Len(d.kids)) + 16 * (Len(d.kids) - 1)
RepeatRule(d) ==
  /\ Len(d.kids) = 1
  /\ d.w = d.kids[1].w + 32
  /\ d.h = d.kids[1].h + 16

\* C5 as stated: after appendToDOM returns, every '.', '|' and '+' DIV has
\* the reference size: sum(w) + 16(n+1) by max(h), max(w) + 32 by
\* sum(h) + 16(n-1), and w + 32 by h + 16.
C5_SizesByRule ==
  (fn = "appendToDOM" /\ threw = "none") =>
    \A d \in AllDivs :
      /\ d.op = "." => SequenceRule(d)
      /\ d.op = "|" => ChoiceRule(d)
      /\ d.op = "+" => RepeatRule(d)

\* C5 as amended: the same, for a '|' of at least one option; a '|' of no
\* option is 0 by 0.
C5_SizesByRuleFromOneOption ==
  (fn = "appendToDOM" /\ threw = "none") =>
    \A d \in AllDivs :
      /\ d.op = "." => SequenceRule(d)
      /\ (d.op = "|" /\ Len(d.kids) >= 1) => ChoiceRule(d)
      /\ (d.op = "|" /\ Len(d.kids) = 0) => (d.w = 0 /\ d.h = 0)
      /\ d.op = "+" => RepeatRule(d)

\* appendToDOM laid out a '|' of two options, one of them a '+' around a leaf.
C5_Witness ==
  /\ fn = "appendToDOM"
  /\ threw = "none"
  /\ \E d \in AllDivs :
       /\ d.op = "|"
       /\ Len(d.kids) = 2
       /\ \E i \in DOMAIN d.kids :
            d.kids[i].op = "+" /\ Len(d.kids[i].kids) = 1 /\ d.kids[i].kids[1].op = "html"

\* ------------------------------------------------------------- C6
\* C6: a builder handed an argument that is neither a node nor a text throws
\* the toNode error and returns no node.
C6_BuildersRejectNonNodes ==
  (fn \in Builders /\ \E i \in DOMAIN args : ~(IsNode(args[i]) \/ IsText(args[i]))) =>
    (threw = "InvalidNodeError" /\ ret = <<>>)

\* ------------------------------------------------------------- C7
KnownOps == {"html", "|", "+", "."}

\* A tree of nodes and texts: no value in it is anything else.
RECURSIVE TreeOfNodes(_)
TreeOfNodes(v) ==
  /\ IsNode(v) \/ IsText(v)
  /\ \A i \in DOMAIN v.children : TreeOfNodes(v.children[i])

\* Some node of the tree, at any depth, has an op outside the four known.
RECURSIVE HasUnsupported(_)
HasUnsupported(v) ==
  \/ IsNode(v) /\ v.op \notin KnownOps
  \/ \E i \in DOMAIN v.children : HasUnsupported(v.children[i])

\* C7: appendToDOM on a tree of nodes that holds, at any depth, a node whose
\* op is none of 'html', '|', '+', '.' throws the unsupported-op error and
\* reports no size.
C7_UnsupportedOpThrows ==
  (fn = "appendToDOM" /\ TreeOfNodes(args[1]) /\ HasUnsupported(args[1])) =>
    (threw = "UnsupportedNodeError" /\ stats = <<>>)

\* appendToDOM was handed a known composite whose unsupported node lies two
\* levels down, after a sibling that was laid out.
C7_Witness ==
  /\ fn = "appendToDOM"
  /\ threw = "UnsupportedNodeError"
  /\ args[1].op = "."
  /\ Len(args[1].children) = 2
  /\ args[1].children[1].op = "html"
  /\ args[1].children[2].op = "+"
  /\ HasUnsupported(args[1].children[2].children[1])

\* ------------------------------------------------------------- C8
\* C8: a call of appendToDOM that throws leaves nothing behind: the parent
\* holds what it held before the call and opt_stats is as it was.
C8_FailedLayoutLeavesNothing ==
  [][(fn' = "appendToDOM" /\ threw' # "none") => (dom' = dom /\ stats' = stats)]_vars

\* ------------------------------------------------------------- C9
Top(s) == s.top
Bottom(s) == s.top + s.height

\* The two spans of one connector meet at x = jx, their vertical extents are
\* adjacent, and together they cover exactly the interval between a and b.
HalvesCover(group, jx, a, b) ==
  /\ Len(group) = 2
  /\ group[1].left + group[1].width = jx
  /\ group[2].left = jx
  /\ \/ Bottom(group[1]) = Top(group[2])
     \/ Bottom(group[2]) = Top(group[1])
  /\ (IF Top(group[1]) < Top(group[2]) THEN Top(group[1]) ELSE Top(group[2]))
       = (IF a < b THEN a ELSE b)
  /\ (IF Bottom(group[1]) > Bottom(group[2]) THEN Bottom(group[1]) ELSE Bottom(group[2]))
       = (IF a < b THEN b ELSE a)

\* C9: in every '|' DIV, for every option i whose centre c_i is not the
\* DIV's centerY = floor(height / 2), above or below alike, the entry
\* connector is two spans meeting at x = 8 and the exit connector two spans
\* meeting at x = width - 8, adjacent and covering exactly centerY..c_i.
C9_ChoiceConnectorHalves ==
  (fn = "appendToDOM" /\ threw = "none") =>
    \A d \in AllDivs : d.op = "|" =>
      \A i \in DOMAIN d.kids :
        LET centerY == d.h \div 2
            c == d.kids[i].top + (d.kids[i].h \div 2)
        IN c # centerY =>
             /\ HalvesCover(d.spans[2 * i - 1], 8, centerY, c)
             /\ HalvesCover(d.spans[2 * i], d.w - 8, centerY, c)

\* ------------------------------------------------------------- C10
\* C10: in every '.' DIV of height h, every child i, of height h_i and placed
\* at floor((h - h_i) / 2), has its centre line top + floor(h_i / 2) at
\* floor(h / 2), the level of every straight connector of the '.'.
C10_SequenceChildrenOnCentreLine ==
  (fn = "appendToDOM" /\ threw = "none") =>
    \A d \in AllDivs : d.op = "." =>
      /\ \A g \in DOMAIN d.spans :
           Len(d.spans[g]) = 1 /\ d.spans[g][1].top = d.h \div 2
      /\ \A i \in DOMAIN d.kids :
           /\ d.kids[i].top = (d.h - d.kids[i].h) \div 2
           /\ d.kids[i].top + (d.kids[i].h \div 2) = d.h \div 2
=============================================================================
